---- MODULE Spec2Model ----
(***************************************************************************)
(* fusb_mass_storage_sync: a polling detector of mounted volumes           *)
(* (fmount.Fmount) and the per-volume synchronisation sequence             *)
(* (fusb_mass_storage_sync.FMassStorageSync).                              *)
(*                                                                         *)
(* Two flows of control: the poll flow (Fmount.scan with the callback      *)
(* ui_sync_drive running inside it) and the tray-icon thread               *)
(* (open_folder, open_settings, quit).  Durations are in tenths of a       *)
(* second.                                                                 *)
(***************************************************************************)
EXTENDS Integers, Sequences, FiniteSets, TLC

\* ------------------------------------------------------------------ bounds
NumVolumes == 2
NumFolders == 1
MaxRetries == 2
TreeDepth == 2

\* --------------------------------------------------------- program constants
sleep_before_sync == 20
defaut_remote_path == "DCIM"
default_icon_path == "icon.png"
\* the float 1.0
default_sync_interval == "float(1.0)"

\* ------------------------------------------------------------ value domains
None == "None"
DriveLetters == <<"E:", "F:", "G:", "H:">>
Volumes == {DriveLetters[k] : k \in 1..NumVolumes}
FolderNames == <<"C:/photos", "C:/backup", "C:/tmp">>
PlainFolders == {FolderNames[k] : k \in 1..NumFolders}
\* an existing directory whose name holds a single percent sign
PercentDir == "C:/100%"
\* the existing directories the user can answer the folder prompt with
Folders == PlainFolders \cup {PercentDir}
\* an answer of the folder prompt that is not an existing directory
NotADir == "C:/notes.txt"
RemotePaths == {defaut_remote_path, "PHOTOS"}

Range(s) == {s[k] : k \in 1..Len(s)}
InjSeqs(S) ==
  {s \in UNION {[1..n -> S] : n \in 0..Cardinality(S)} :
     \A a, b \in 1..Len(s) : a # b => s[a] # s[b]}

\* x in a Python list
In(x, s) == x \in Range(s)

\* list.remove(x): drops the first occurrence of x
RECURSIVE remove(_, _)
remove(s, x) ==
  IF s = <<>> THEN <<>>
  ELSE IF Head(s) = x THEN Tail(s)
  ELSE <<Head(s)>> \o remove(Tail(s), x)

\* ------------------------------------------------------------- source trees
\* A directory tree: the paths of its directories (the root is <<>>) and of
\* its regular files, each path the sequence of names below the root.
\* The tree of a card: two files, one of them two directories down.
CardTree ==
  [dirs |-> {<<>>, <<"a">>, <<"a", "b">>}, files |-> {<<"f">>, <<"a", "b", "f">>}]

\* Every tree below the directory p that is at most d levels deep, its
\* entries named "a" and "b": each name is absent, a regular file, or a
\* directory holding such a tree one level less deep.
RECURSIVE TreesBelow(_, _)
TreesBelow(p, d) ==
  IF d = 0 THEN {[dirs |-> {p}, files |-> {}]}
  ELSE LET Entry(n) ==
             {[dirs |-> {}, files |-> {}], [dirs |-> {}, files |-> {Append(p, n)}]}
               \cup TreesBelow(Append(p, n), d - 1)
       IN {[dirs |-> {p} \cup x.dirs \cup y.dirs, files |-> x.files \cup y.files] :
             x \in Entry("a"), y \in Entry("b")}
EmptyRoot == [dirs |-> {<<>>}, files |-> {}]

iterdir(t, p) ==
  {q \in t.dirs \cup t.files :
     Len(q) = Len(p) + 1 /\ SubSeq(q, 1, Len(p)) = p}
unlink(t, q) == [t EXCEPT !.files = @ \ {q}]
rmdir(t, q) == [t EXCEPT !.dirs = @ \ {q}]

RmdirSelf_always(level) == level >= 0
RmdirSelf_never(level) == FALSE
\* `if level>0: p.rmdir()`
RmdirSelf(level) == level > 0

RECURSIVE del_tree(_, _, _)
RECURSIVE del_children(_, _, _, _)
\* the loop `for child in p.iterdir()` over the children still to visit
del_children(t, p, todo, level) ==
  IF todo = {} THEN [tree |-> t, nb_files |-> 0]
  ELSE LET child == CHOOSE c \in todo : TRUE
           r1 == IF child \in t.files
                 THEN [tree |-> unlink(t, child), nb_files |-> 1]
                 ELSE del_tree(t, child, level + 1)
           r2 == del_children(r1.tree, p, todo \ {child}, level)
       IN [tree |-> r2.tree, nb_files |-> r1.nb_files + r2.nb_files]
del_tree(t, p, level) ==
  LET r == del_children(t, p, iterdir(t, p), level)
  IN [tree |-> IF RmdirSelf(level) THEN rmdir(r.tree, p) ELSE r.tree,
      nb_files |-> r.nb_files]

\* ------------------------------------------------------------ configuration
\* configparser.ConfigParser() with its default BasicInterpolation, as
\* read_ini creates it.  An option's stored text is what config.set was
\* given; None stands for an option (or the section) that is not there.
ConfigKeys == {"local_folder", "remote_path", "icon_path", "sync_interval"}
NoOptions == [k \in ConfigKeys |-> None]

\* more texts: one with a doubled percent sign, one ending in a blank
EscapedDir == "C:/a%%b"
PaddedDir == "C:/photos "
OtherFloat == "float(2.5)"
Floats == {default_sync_interval, OtherFloat}

\* str(value)
str(value) ==
  CASE value = default_sync_interval -> "1.0"
    [] value = OtherFloat -> "2.5"
    [] OTHER -> value

\* float(text), as config.getfloat converts
float(text) ==
  CASE text = "1.0" -> default_sync_interval
    [] text = "2.5" -> OtherFloat
    [] OTHER -> "ValueError"

\* BasicInterpolation.before_set: a '%' that starts neither '%%' nor '%('
\* makes config.set raise ValueError
before_set_raises(text) == text = PercentDir

\* BasicInterpolation.before_get: '%%' reads as '%', a lone '%' raises
before_get(text) ==
  CASE text = EscapedDir -> "C:/a%b"
    [] text = PercentDir -> "InterpolationSyntaxError"
    [] OTHER -> text

\* the parser strips the blanks around a value it reads from the file
strip(text) == IF text = PaddedDir THEN "C:/photos" ELSE text

\* config.get('Settings', key, fallback=None)
config_get(cfg, key) == IF cfg[key] = None THEN None ELSE before_get(cfg[key])

\* config.getfloat('Settings', key, fallback=None)
config_getfloat(cfg, key) ==
  IF cfg[key] = None THEN None ELSE float(before_get(cfg[key]))

\* config.set('Settings', key, str(value))
set_settings(cfg, key, value) == [cfg EXCEPT ![key] = str(value)]

write_ini_skipped(cfg, file) == file
\* write_ini: the file is rewritten whole from the configuration
write_ini(cfg, file) == [kind |-> "ok", opts |-> cfg]

\* the INI file: missing, unparsable, or holding the options of [Settings]
MissingFile == [kind |-> "missing", opts |-> NoOptions]
CorruptFile == [kind |-> "corrupt", opts |-> NoOptions]

\* read_ini when config.read does not raise: a fresh parser, the file's
\* options when it exists
read_ini(file) == [k \in ConfigKeys |-> strip(file.opts[k])]

\* The property getters: the value returned, the configuration afterwards
\* and whether set_settings (hence write_ini) was called.
Defaulting(cfg, key, got, default) ==
  IF got = None
  THEN [value |-> default, config |-> set_settings(cfg, key, default),
        wrote |-> TRUE]
  ELSE [value |-> got, config |-> cfg, wrote |-> FALSE]

local_folder_defaulting(cfg) ==
  Defaulting(cfg, "local_folder", config_get(cfg, "local_folder"),
             FolderNames[1])
\* local_folder has no default: None when unset, and nothing is stored
local_folder(cfg) ==
  [value |-> config_get(cfg, "local_folder"), config |-> cfg, wrote |-> FALSE]

remote_path(cfg) ==
  Defaulting(cfg, "remote_path", config_get(cfg, "remote_path"),
             defaut_remote_path)
icon_path(cfg) ==
  Defaulting(cfg, "icon_path", config_get(cfg, "icon_path"), default_icon_path)
sync_interval(cfg) ==
  Defaulting(cfg, "sync_interval", config_getfloat(cfg, "sync_interval"),
             default_sync_interval)

Getter(cfg, key) ==
  CASE key = "local_folder" -> local_folder(cfg)
    [] key = "remote_path" -> remote_path(cfg)
    [] key = "icon_path" -> icon_path(cfg)
    [] key = "sync_interval" -> sync_interval(cfg)

\* -------------------------------------------------------------------- state
VARIABLES
  drives,      \* Fmount.drives
  run,         \* Fmount.run
  pc,          \* position of the poll flow in Fmount.scan
  listed,      \* what os.listdrives() returned in the current poll
  i,           \* index in listed of the entry find_drives is at
  _drives,     \* detect_new_drives' local list of the volumes yielded
  hpc,         \* per volume, the position of its handler invocation
  delay,       \* ui_sync_drive's settle delay of the current prompt
  depth,       \* recursion depth of ui_sync_drive
  nInvalid,    \* answers that were not an existing directory, this invocation
  nErrors,     \* popup_error dialogs shown, this invocation
  answer,      \* the last answer of popup_get_folder, latest invocation
  writes,      \* write_ini calls, this invocation
  synced,      \* dirsync.sync has returned, latest invocation
  nb_files,    \* del_tree's result, as reported by popup_ok
  config,      \* FMassStorageSync.config, section Settings
  ini,         \* the INI file on disk
  tree,        \* per volume, the tree below volume / remote_path
  prev,        \* the volumes of the previous completed enumeration
  called,      \* the volumes the callback was invoked for, this poll
  error,       \* what terminated scan by an exception, if anything
  icon,        \* the tray icon is running
  last         \* the latest call of a property getter or setter, and of read_ini

vars == <<drives, run, pc, listed, i, _drives, hpc, delay, depth, nInvalid,
          nErrors, answer, writes, synced, nb_files, config, ini, tree, prev,
          called, error, icon, last>>

pollVars == <<drives, pc, listed, i, _drives, prev, called, error>>
handlerVars == <<hpc, delay, depth, nInvalid, nErrors, answer, writes, synced,
                 nb_files>>
storeVars == <<config, ini, tree, last>>
uiVars == <<run, icon>>

Idle == [v \in Volumes |-> "idle"]
NoCall == [op |-> "none", key |-> None, value |-> None, wrote |-> FALSE]

Init ==
  /\ drives \in InjSeqs(Volumes)
  /\ run = TRUE
  /\ pc = "test"
  /\ listed = <<>>
  /\ i = 1
  /\ _drives = <<>>
  /\ hpc = Idle
  /\ delay = 0
  /\ depth = 0
  /\ nInvalid = 0
  /\ nErrors = 0
  /\ answer = None
  /\ writes = 0
  /\ synced = FALSE
  /\ nb_files = 0
  /\ \E lf \in {None} \cup PlainFolders, rp \in {None} \cup RemotePaths :
       config = [local_folder |-> lf, remote_path |-> rp,
                 icon_path |-> default_icon_path,
                 sync_interval |-> str(default_sync_interval)]
  /\ ini = write_ini(config, MissingFile)
  /\ tree = [v \in Volumes |-> CardTree]
  /\ prev = Range(drives)
  /\ called = <<>>
  /\ error = "none"
  /\ icon = TRUE
  /\ last = NoCall

\* ---------------------------------------------------------------- poll flow
LoopCondition_always == TRUE
\* the condition of `while self.run:`
LoopCondition == run

\* `while self.run:` is evaluated; when it fails scan logs and returns
LoopTest ==
  /\ pc = "test"
  /\ pc' = IF LoopCondition THEN "call" ELSE "returned"
  /\ UNCHANGED <<drives, listed, i, _drives, prev, called, error>>
  /\ UNCHANGED <<handlerVars, storeVars, uiVars>>

\* detect_new_drives is entered and os.listdrives() returns
StartPoll ==
  /\ pc = "call"
  /\ \E l \in InjSeqs(Volumes) : listed' = l
  /\ i' = 1
  /\ _drives' = <<>>
  /\ called' = <<>>
  /\ pc' = "iter"
  /\ UNCHANGED <<drives, prev, error>>
  /\ UNCHANGED <<handlerVars, storeVars, uiVars>>

\* detect_new_drives is entered and os.listdrives() raises OSError: nothing
\* catches it in find_drives, detect_new_drives or scan
ListDrivesRaises ==
  /\ pc = "call"
  /\ pc' = "raised"
  /\ error' = "enum"
  /\ UNCHANGED <<drives, listed, i, _drives, prev, called>>
  /\ UNCHANGED <<handlerVars, storeVars, uiVars>>

\* find_drives: the entry is not a directory (unreadable, no medium)
SkipEntry ==
  /\ pc = "iter"
  /\ i <= Len(listed)
  /\ i' = i + 1
  /\ UNCHANGED <<drives, pc, listed, _drives, prev, called, error>>
  /\ UNCHANGED <<handlerVars, storeVars, uiVars>>

IsNew_always(drive, tracked) == TRUE
\* `if drive not in self.drives:`
IsNew(drive, tracked) == ~In(drive, tracked)

Track_skipped(tracked, drive) == tracked
\* `self.drives.append(drive)`, before the callback is invoked
Track(tracked, drive) == Append(tracked, drive)

\* the entry is a directory and already tracked
KnownDrive ==
  /\ pc = "iter"
  /\ i <= Len(listed)
  /\ ~IsNew(listed[i], drives)
  /\ _drives' = Append(_drives, listed[i])
  /\ i' = i + 1
  /\ UNCHANGED <<drives, pc, listed, prev, called, error>>
  /\ UNCHANGED <<handlerVars, storeVars, uiVars>>

AfterInvoke_async == "iter"
\* `callback(drive)` is a plain call: the poll flow waits for its return
AfterInvoke == "callback"

\* the entry is a directory and not tracked: track it, invoke the callback
NewDrive ==
  /\ pc = "iter"
  /\ i <= Len(listed)
  /\ IsNew(listed[i], drives)
  /\ drives' = Track(drives, listed[i])
  /\ called' = Append(called, listed[i])
  /\ hpc' = [hpc EXCEPT ![listed[i]] = "settle"]
  /\ delay' = sleep_before_sync
  /\ answer' = None
  /\ synced' = FALSE
  /\ pc' = AfterInvoke
  /\ UNCHANGED <<listed, i, _drives, prev, error>>
  /\ UNCHANGED <<depth, nInvalid, nErrors, writes, nb_files>>
  /\ UNCHANGED <<storeVars, uiVars>>

\* `for drive in self.drives: if drive not in _drives: self.drives.remove(drive)`
\* the list iterator is an index into the list being shortened
RECURSIVE RemoveLoop(_, _, _)
RemoveLoop(ds, cur, j) ==
  IF j > Len(ds) THEN ds
  ELSE IF ~In(ds[j], cur) THEN RemoveLoop(remove(ds, ds[j]), cur, j + 1)
  ELSE RemoveLoop(ds, cur, j + 1)

\* the enumeration is exhausted: the removal loop, then scan goes to sleep
EndPoll ==
  /\ pc = "iter"
  /\ i > Len(listed)
  /\ drives' = RemoveLoop(drives, _drives, 1)
  /\ pc' = "sleep"
  /\ UNCHANGED <<listed, i, _drives, prev, called, error>>
  /\ UNCHANGED <<handlerVars, storeVars, uiVars>>

\* `time.sleep(delay)` is over
Sleep ==
  /\ pc = "sleep"
  /\ pc' = "test"
  /\ prev' = Range(_drives)
  /\ UNCHANGED <<drives, listed, i, _drives, called, error>>
  /\ UNCHANGED <<handlerVars, storeVars, uiVars>>

\* ------------------------------------------------------------------ handler
SeenAfterCallback_skipped(v) == _drives
\* `_drives.append(drive)` follows the `if`, so it also runs for a new drive
SeenAfterCallback(v) == Append(_drives, v)

\* the callback returns to detect_new_drives, which does `_drives.append(drive)`
ReturnToPoll(v) ==
  /\ hpc' = [hpc EXCEPT ![v] = "idle"]
  /\ pc' = "iter"
  /\ _drives' = SeenAfterCallback(v)
  /\ i' = i + 1
  /\ delay' = 0
  /\ depth' = 0
  /\ nInvalid' = 0
  /\ nErrors' = 0
  /\ writes' = 0
  /\ nb_files' = 0
  /\ UNCHANGED <<drives, listed, prev, called, error>>

\* `time.sleep(...)` at the head of ui_sync_drive is over, the prompt opens
Settle(v) ==
  /\ hpc[v] = "settle"
  /\ hpc' = [hpc EXCEPT ![v] = "prompt"]
  /\ UNCHANGED <<delay, depth, nInvalid, nErrors, answer, writes, synced,
                 nb_files>>
  /\ UNCHANGED <<pollVars, storeVars, uiVars>>

\* popup_get_folder returns None or '': `if filename:` fails
Cancel(v) ==
  /\ hpc[v] = "prompt"
  /\ answer' = None
  /\ ReturnToPoll(v)
  /\ UNCHANGED <<synced, storeVars, uiVars>>

\* the answer is not an existing directory: popup_error is shown
InvalidAnswer(v) ==
  /\ hpc[v] = "prompt"
  /\ nInvalid < MaxRetries
  /\ answer' = NotADir
  /\ nInvalid' = nInvalid + 1
  /\ nErrors' = nErrors + 1
  /\ hpc' = [hpc EXCEPT ![v] = "error"]
  /\ UNCHANGED <<delay, depth, writes, synced, nb_files>>
  /\ UNCHANGED <<pollVars, storeVars, uiVars>>

RetryDelay_default == sleep_before_sync
\* `self.ui_sync_drive(drive, 0.0)`
RetryDelay == 0

\* popup_error is dismissed: ui_sync_drive calls itself
Retry(v) ==
  /\ hpc[v] = "error"
  /\ depth' = depth + 1
  /\ delay' = RetryDelay
  /\ hpc' = [hpc EXCEPT ![v] = "settle"]
  /\ UNCHANGED <<nInvalid, nErrors, answer, writes, synced, nb_files>>
  /\ UNCHANGED <<pollVars, storeVars, uiVars>>

\* `if filename != self.local_folder:`
Differs(f, cfg) == f # local_folder(cfg).value

\* the answer f is an existing directory: local_folder is updated when it
\* differs, then sync_drive reads remote_path and calls dirsync.sync
ValidAnswer(v) ==
  /\ hpc[v] = "prompt"
  /\ \E f \in Folders :
       LET w1 == Differs(f, config)
           c1 == IF w1 THEN set_settings(config, "local_folder", f) ELSE config
           r2 == remote_path(c1)
           c2 == r2.config
       IN /\ ~(w1 /\ before_set_raises(str(f)))
          /\ answer' = f
          /\ config' = c2
          /\ ini' = IF w1 \/ r2.wrote THEN write_ini(c2, ini) ELSE ini
          /\ writes' = writes + (IF w1 THEN 1 ELSE 0)
                              + (IF r2.wrote THEN 1 ELSE 0)
  /\ hpc' = [hpc EXCEPT ![v] = "sync"]
  /\ UNCHANGED <<delay, depth, nInvalid, nErrors, synced, nb_files>>
  /\ UNCHANGED <<pollVars, tree, last, uiVars>>

\* the answer f is an existing directory that differs from local_folder and
\* config.set raises ValueError on it in set_settings: nothing catches it in
\* ui_sync_drive, detect_new_drives or scan
SetRaises(v) ==
  /\ hpc[v] = "prompt"
  /\ \E f \in Folders :
       /\ Differs(f, config)
       /\ before_set_raises(str(f))
       /\ answer' = f
  /\ hpc' = [hpc EXCEPT ![v] = "idle"]
  /\ pc' = "raised"
  /\ error' = "handler"
  /\ UNCHANGED <<drives, listed, i, _drives, prev, called>>
  /\ UNCHANGED <<delay, depth, nInvalid, nErrors, writes, synced, nb_files>>
  /\ UNCHANGED <<storeVars, uiVars>>

\* sync_drive: source = Path(drive) / self.remote_path and
\* target = Path(self.local_folder), the arguments of dirsync.sync
SyncArgs(v) ==
  [source |-> <<v, remote_path(config).value>>,
   target |-> local_folder(config).value]

\* dirsync.sync returns: popup_ok_cancel asks whether to delete the source
SyncReturns(v) ==
  /\ hpc[v] = "sync"
  /\ synced' = TRUE
  /\ hpc' = [hpc EXCEPT ![v] = "ask"]
  /\ UNCHANGED <<delay, depth, nInvalid, nErrors, answer, writes, nb_files>>
  /\ UNCHANGED <<pollVars, storeVars, uiVars>>

\* dirsync.sync raises: nothing catches it in sync_drive, ui_sync_drive,
\* detect_new_drives or scan
SyncRaises(v) ==
  /\ hpc[v] = "sync"
  /\ hpc' = [hpc EXCEPT ![v] = "idle"]
  /\ pc' = "raised"
  /\ error' = "handler"
  /\ UNCHANGED <<drives, listed, i, _drives, prev, called>>
  /\ UNCHANGED <<delay, depth, nInvalid, nErrors, answer, writes, synced,
                 nb_files>>
  /\ UNCHANGED <<storeVars, uiVars>>

\* the user answers OK: del_tree(source), then popup_ok reports the count
DeleteYes(v) ==
  /\ hpc[v] = "ask"
  /\ LET r == del_tree(tree[v], <<>>, 0)
     IN /\ tree' = [tree EXCEPT ![v] = r.tree]
        /\ nb_files' = r.nb_files
  /\ hpc' = [hpc EXCEPT ![v] = "report"]
  /\ UNCHANGED <<delay, depth, nInvalid, nErrors, answer, writes, synced>>
  /\ UNCHANGED <<pollVars, config, ini, last, uiVars>>

\* the user answers Cancel: sync_drive returns
DeleteNo(v) ==
  /\ hpc[v] = "ask"
  /\ ReturnToPoll(v)
  /\ UNCHANGED <<answer, synced, storeVars, uiVars>>

\* popup_ok is dismissed: sync_drive returns
Report(v) ==
  /\ hpc[v] = "report"
  /\ ReturnToPoll(v)
  /\ UNCHANGED <<answer, synced, storeVars, uiVars>>

\* ------------------------------------------------------------ tray-icon thread
\* Fmount.stop
stop == run' = FALSE

\* FMassStorageSync.quit: fmount.stop(), then icon.stop()
Quit ==
  /\ icon
  /\ stop
  /\ icon' = FALSE
  /\ UNCHANGED <<pollVars, handlerVars, storeVars>>

\* FMassStorageSync.open_folder: reads local_folder, os.startfile(it) when set
OpenFolder ==
  /\ icon
  /\ LET r == local_folder(config)
     IN /\ config' = r.config
        /\ ini' = IF r.wrote THEN write_ini(r.config, ini) ELSE ini
  /\ UNCHANGED <<run, icon>>
  /\ UNCHANGED <<pollVars, handlerVars, tree, last>>

\* FMassStorageSync.open_settings: os.system(str(ini_path))
OpenSettings ==
  /\ icon
  /\ UNCHANGED <<run, icon>>
  /\ UNCHANGED <<pollVars, handlerVars, storeVars>>

\* ------------------------------------------------------------ specification
Next ==
  \/ LoopTest
  \/ StartPoll
  \/ ListDrivesRaises
  \/ SkipEntry
  \/ KnownDrive
  \/ NewDrive
  \/ EndPoll
  \/ Sleep
  \/ \E v \in Volumes : Settle(v)
  \/ \E v \in Volumes : Cancel(v)
  \/ \E v \in Volumes : InvalidAnswer(v)
  \/ \E v \in Volumes : Retry(v)
  \/ \E v \in Volumes : ValidAnswer(v)
  \/ \E v \in Volumes : SetRaises(v)
  \/ \E v \in Volumes : SyncReturns(v)
  \/ \E v \in Volumes : SyncRaises(v)
  \/ \E v \in Volumes : DeleteYes(v)
  \/ \E v \in Volumes : DeleteNo(v)
  \/ \E v \in Volumes : Report(v)
  \/ Quit
  \/ OpenFolder
  \/ OpenSettings

Spec == Init /\ [][Next]_vars

TypeOK ==
  /\ drives \in Seq(Volumes)
  /\ pc \in {"test", "call", "iter", "callback", "sleep", "returned", "raised",
            "init", "ready"}
  /\ ini.kind \in {"missing", "corrupt", "ok"}
  /\ DOMAIN config = ConfigKeys
  /\ hpc \in [Volumes -> {"idle", "settle", "prompt", "error", "sync", "ask",
                          "report"}]

\* ------------------------------------------------------------------- claims
\* the number of times x occurs in the list s
Count(x, s) == Cardinality({k \in 1..Len(s) : s[k] = x})
\* the place of x in the duplicate-free list s
Pos(x, s) == CHOOSE k \in 1..Len(s) : s[k] = x
InFlight == {v \in Volumes : hpc[v] # "idle"}
PromptPhase == {"settle", "prompt", "error"}

\* C1: when a detect_new_drives call has completed, Fmount.drives holds
\* exactly the volumes of the snapshot that call observed: every tracked
\* volume absent from it was removed in that call, nothing present is missing.
C1_TrackedEqualsSnapshot ==
  pc = "sleep" => Range(drives) = Range(_drives)

\* C2: in every completed poll the callback was invoked exactly once for each
\* volume present in this snapshot and absent from the previous one (the
\* baseline for the first poll), and not at all for any other volume.
C2_OncePerAppearance ==
  pc = "sleep" =>
    \A v \in Volumes :
      Count(v, called) = IF v \in Range(_drives) \ prev THEN 1 ELSE 0

\* C3: a handler invocation that raises does not terminate Fmount.scan.
C3_ScanSurvivesHandlerFailure ==
  ~(pc = "raised" /\ error = "handler")

\* C4: a failure of the OS volume enumeration does not terminate Fmount.scan.
C4_ScanSurvivesEnumerationFailure ==
  ~(pc = "raised" /\ error = "enum")

\* C5: at most one handler invocation is in flight; while one is, the poll
\* flow is suspended in the callback of exactly that volume, the entry the
\* enumeration is at; and the callbacks of one poll were invoked in the order
\* in which the enumeration returned their volumes.
C5_OneHandlerInEnumerationOrder ==
  /\ Cardinality(InFlight) <= 1
  /\ \A v \in InFlight :
       /\ pc = "callback"
       /\ i <= Len(listed) /\ listed[i] = v
       /\ called # <<>> /\ called[Len(called)] = v
  /\ \A a, b \in 1..Len(called) :
       a < b => /\ In(called[a], listed) /\ In(called[b], listed)
                /\ Pos(called[a], listed) < Pos(called[b], listed)
                /\ Pos(called[b], listed) <= i

\* Two volumes appeared in the same poll and the second handler is running
\* after the first one returned.
C5_Witness ==
  /\ Len(called) = 2
  /\ hpc[called[2]] = "prompt"
  /\ In(called[1], _drives)

\* C6 (as stated): once Fmount.stop has been called, no detect_new_drives
\* call is started any more.
C6_NoPollStartsAfterStop ==
  [][~run => ~(pc = "call" /\ pc' # "call")]_vars

\* C6 (amended): Fmount.stop changes nothing but the run flag, so the
\* detect_new_drives call in flight and its handlers go on undisturbed; and
\* once stop has been called the loop test of scan never succeeds again, so
\* the only detect_new_drives call that can still start is the one whose loop
\* test had succeeded before stop.
C6_StopTakesEffectAtLoopTest ==
  [][/\ (run /\ ~run') => UNCHANGED <<pollVars, handlerVars, storeVars>>
     /\ (~run /\ pc # "call") => pc' # "call"]_vars

\* stop has been called and the handler of the second volume found new in
\* one poll is running, past its sync.
C6_Witness ==
  /\ ~run
  /\ Len(called) = 2
  /\ hpc[called[2]] = "ask"

\* C7: once Fmount.stop has been called, scan does not end by raising
\* (unless a handler invocation raised), and the run flag stays false.
C7_StopThenReturnsNormally ==
  [][~run => /\ ~run'
             /\ (pc # "raised" /\ pc' = "raised") => error' = "handler"]_vars

\* C8: when the folder prompt is cancelled the handler returns to the poll
\* without error, having synced, deleted and written nothing, and the volume
\* is tracked and counted as seen in this poll; and a volume that was in the
\* previous snapshot and is in this one stays tracked without a callback, so
\* the handler is not invoked again while the volume remains mounted.
C8_CancelHasNoEffect ==
  /\ [][\A v \in Volumes :
          (hpc[v] = "prompt" /\ hpc'[v] = "idle" /\ answer' = None) =>
            /\ UNCHANGED <<config, ini, tree>>
            /\ writes = 0 /\ ~synced'
            /\ pc' = "iter" /\ error' = "none"
            /\ In(v, drives') /\ In(v, _drives')]_vars
  /\ [](pc = "sleep" =>
          \A v \in prev \cap Range(_drives) :
            In(v, drives) /\ ~In(v, called))

\* A handler invoked in this poll has returned with no answer chosen, that
\* is by a cancel, and its volume is tracked and counted as seen.
C8_Witness ==
  /\ pc = "iter"
  /\ InFlight = {}
  /\ called # <<>>
  /\ answer = None
  /\ In(called[Len(called)], _drives)
  /\ In(called[Len(called)], drives)

\* C9: in the prompt phase of a handler invocation one error has been shown
\* per answer that was not an existing directory and one re-prompt made per
\* error; the first prompt follows the default settle delay and every
\* re-prompt a zero delay; nothing has been written or synced; an invalid
\* answer changes neither the configuration nor any tree; and the phase is
\* left only from the prompt, by a cancel or by an existing directory.
C9_RetryUntilValidOrCancel ==
  /\ [](\A v \in Volumes :
          /\ hpc[v] \in PromptPhase =>
               /\ nErrors = nInvalid
               /\ depth = IF hpc[v] = "error" THEN nInvalid - 1 ELSE nInvalid
               /\ delay = IF depth = 0 THEN sleep_before_sync ELSE 0
               /\ writes = 0 /\ ~synced)
  /\ [][\A v \in Volumes :
          /\ (hpc[v] = "prompt" /\ hpc'[v] = "error") =>
               /\ UNCHANGED <<config, ini, tree, writes, synced>>
               /\ answer' \notin Folders \cup {None}
          /\ (hpc[v] \in PromptPhase /\ hpc'[v] \notin PromptPhase) =>
               /\ hpc[v] = "prompt"
               /\ \/ hpc'[v] = "idle" /\ answer' = None
                  \/ hpc'[v] = "sync" /\ answer' \in Folders
                  \/ pc' = "raised" /\ answer' \in Folders]_vars

\* The prompt is open for the third time, after two invalid answers.
C9_Witness ==
  \E v \in Volumes : hpc[v] = "prompt" /\ nInvalid = 2 /\ delay = 0

\* C10: a source tree changes only in the step of a handler invocation in
\* which the user answers OK to the delete question, which is asked only
\* after dirsync.sync has returned in that invocation for that volume; no
\* other step (cancel, sync raising, answer no) changes a tree; and the root
\* directory of every source tree is always there.
C10_DeleteOnlyAfterSyncAndYes ==
  /\ [](\A v \in Volumes :
          /\ <<>> \in tree[v].dirs
          /\ hpc[v] \in {"ask", "report"} => synced /\ InFlight = {v})
  /\ [][\A v \in Volumes :
          tree'[v] # tree[v] =>
            /\ hpc[v] = "ask" /\ hpc'[v] = "report" /\ synced
            /\ <<>> \in tree'[v].dirs
            /\ \A w \in Volumes \ {v} : tree'[w] = tree[w]]_vars

\* The user answered OK after the sync: the two files were deleted, the
\* subdirectories are gone and the root is left.
C10_Witness ==
  \E v \in Volumes :
    /\ hpc[v] = "report"
    /\ nb_files = 2
    /\ tree[v] = [dirs |-> {<<>>}, files |-> {}]

\* ------------------------------------------------- del_tree on every tree
\* The delete question is open for the first volume, whose source tree is
\* any tree of TreeDepth levels; the steps are those of sync_drive from there.
InitDelTree ==
  LET v == DriveLetters[1]
  IN /\ drives = <<v>>
     /\ run = TRUE
     /\ pc = "callback"
     /\ listed = <<v>>
     /\ i = 1
     /\ _drives = <<>>
     /\ hpc = [Idle EXCEPT ![v] = "ask"]
     /\ delay = sleep_before_sync
     /\ depth = 0
     /\ nInvalid = 0
     /\ nErrors = 0
     /\ answer = FolderNames[1]
     /\ writes = 0
     /\ synced = TRUE
     /\ nb_files = 0
     /\ config = [local_folder |-> FolderNames[1],
                  remote_path |-> defaut_remote_path,
                  icon_path |-> default_icon_path,
                  sync_interval |-> str(default_sync_interval)]
     /\ ini = write_ini(config, MissingFile)
     /\ last = NoCall
     /\ \E t \in TreesBelow(<<>>, TreeDepth) :
          tree = [w \in Volumes |-> IF w = v THEN t ELSE CardTree]
     /\ prev = {}
     /\ called = <<v>>
     /\ error = "none"
     /\ icon = TRUE

NextDelTree ==
  \/ \E v \in Volumes : DeleteYes(v)
  \/ \E v \in Volumes : DeleteNo(v)
  \/ \E v \in Volumes : Report(v)

SpecDelTree == InitDelTree /\ [][NextDelTree]_vars

\* C11: del_tree(root) on a tree of N regular files and M subdirectories
\* returns N and leaves the root directory, empty: none of the files and
\* none of the subdirectories remains.
C11_DelTreeCountsAndEmpties ==
  [][\A v \in Volumes :
       (hpc[v] = "ask" /\ hpc'[v] = "report") =>
         /\ nb_files' = Cardinality(tree[v].files)
         /\ tree'[v] = EmptyRoot]_vars

\* del_tree has emptied a tree of four files in two subdirectories.
C11_Witness ==
  \E v \in Volumes :
    /\ hpc[v] = "report"
    /\ nb_files = 4
    /\ tree[v] = EmptyRoot

\* -------------------------------------------------- the configuration store
\* FMassStorageSync.__init__ loads the file, then the program reads and writes
\* the four properties; loading again is the next start of the program.
\* the values a property is assigned
SetValues(k) ==
  CASE k = "local_folder" -> Folders \cup {EscapedDir, PaddedDir}
    [] k = "remote_path" -> RemotePaths
    [] k = "icon_path" -> {default_icon_path, "tray.png"}
    [] k = "sync_interval" -> Floats

\* the files found at startup
InitialFiles ==
  {MissingFile, CorruptFile} \cup
  {[kind |-> "ok", opts |-> o] :
     o \in {c \in [ConfigKeys -> {None, "1.0", "2.5", default_icon_path}
                                   \cup PlainFolders \cup RemotePaths] :
              /\ c["local_folder"] \in {None} \cup PlainFolders
              /\ c["remote_path"] \in {None} \cup RemotePaths
              /\ c["icon_path"] \in {None, default_icon_path}
              /\ c["sync_interval"] \in {None, "1.0", "2.5"}}}

InitConfig ==
  /\ drives = <<>>
  /\ run = TRUE
  /\ pc = "init"
  /\ listed = <<>>
  /\ i = 1
  /\ _drives = <<>>
  /\ hpc = Idle
  /\ delay = 0
  /\ depth = 0
  /\ nInvalid = 0
  /\ nErrors = 0
  /\ answer = None
  /\ writes = 0
  /\ synced = FALSE
  /\ nb_files = 0
  /\ config = NoOptions
  /\ ini \in InitialFiles
  /\ tree = [v \in Volumes |-> CardTree]
  /\ prev = {}
  /\ called = <<>>
  /\ error = "none"
  /\ icon = FALSE
  /\ last = NoCall

configFrame == <<drives, run, listed, i, _drives, hpc, delay, depth, nInvalid,
                 nErrors, answer, writes, synced, nb_files, tree, prev, called,
                 icon>>

\* config.read raises on a file it cannot parse
ReadRaises(file) == file.kind = "corrupt"

\* self.config = self.read_ini()
ReadIni ==
  /\ pc \in {"init", "ready"}
  /\ ~ReadRaises(ini)
  /\ config' = read_ini(ini)
  /\ pc' = "ready"
  /\ last' = [op |-> "read", key |-> None, value |-> None, wrote |-> FALSE]
  /\ UNCHANGED <<ini, error, configFrame>>

\* the exception of config.read leaves read_ini and __init__
ReadIniRaises ==
  /\ pc \in {"init", "ready"}
  /\ ReadRaises(ini)
  /\ pc' = "raised"
  /\ error' = "config"
  /\ last' = [op |-> "read", key |-> None, value |-> None, wrote |-> FALSE]
  /\ UNCHANGED <<config, ini, configFrame>>

\* a read of the property k
Get(k) ==
  /\ pc = "ready"
  /\ LET r == Getter(config, k)
     IN /\ config' = r.config
        /\ ini' = IF r.wrote THEN write_ini(r.config, ini) ELSE ini
        /\ last' = [op |-> "get", key |-> k, value |-> r.value,
                    wrote |-> r.wrote]
  /\ UNCHANGED <<pc, error, configFrame>>

\* an assignment of value to the property k: set_settings(k, value)
Set(k, value) ==
  /\ pc = "ready"
  /\ IF before_set_raises(str(value))
     THEN /\ last' = [op |-> "set", key |-> k, value |-> value,
                      wrote |-> FALSE]
          /\ UNCHANGED <<config, ini>>
     ELSE /\ config' = set_settings(config, k, value)
          /\ ini' = write_ini(config', ini)
          /\ last' = [op |-> "set", key |-> k, value |-> value,
                      wrote |-> TRUE]
  /\ UNCHANGED <<pc, error, configFrame>>

NextConfig ==
  \/ ReadIni
  \/ ReadIniRaises
  \/ \E k \in ConfigKeys : Get(k)
  \/ \E k \in ConfigKeys : \E value \in SetValues(k) : Set(k, value)

SpecConfig == InitConfig /\ [][NextConfig]_vars

\* C12: a read of an unset remote_path, icon_path or sync_interval returns
\* 'DCIM', 'icon.png' or 1.0, and stores it in the configuration and in the
\* file; the next read, of this store or of the store read_ini loads from the
\* file, returns the same value and writes nothing.
C12_DefaultPersistsOnFirstRead ==
  [][\A k \in {"remote_path", "icon_path", "sync_interval"} :
       (pc = "ready" /\ config[k] = None /\ last'.op = "get" /\ last'.key = k)
       =>
         LET d == CASE k = "remote_path" -> "DCIM"
                    [] k = "icon_path" -> "icon.png"
                    [] k = "sync_interval" -> "float(1.0)"
         IN /\ last'.value = d
            /\ last'.wrote
            /\ config'[k] # None
            /\ ini'.kind = "ok" /\ ini'.opts[k] # None
            /\ Getter(config', k) =
                 [value |-> d, config |-> config', wrote |-> FALSE]
            /\ ~ReadRaises(ini')
            /\ Getter(read_ini(ini'), k) =
                 [value |-> d, config |-> read_ini(ini'), wrote |-> FALSE]]_vars

C12_Witness ==
  /\ last = [op |-> "get", key |-> "sync_interval", value |-> "float(1.0)",
             wrote |-> TRUE]
  /\ ini.kind = "ok"
  /\ ini.opts["sync_interval"] = "1.0"
  /\ ini.opts["remote_path"] = defaut_remote_path

\* C13: an assignment of a value to a property rewrites the whole file at
\* once: the file then holds the configuration, the store read_ini loads from
\* it returns the assigned value for that key, and holds for every other key
\* the value stored before the assignment.
C13_SetRewritesAndRoundTrips ==
  [][(pc = "ready" /\ last'.op = "set") =>
       /\ last'.wrote
       /\ ini' = write_ini(config', ini)
       /\ ~ReadRaises(ini')
       /\ Getter(read_ini(ini'), last'.key).value = last'.value
       /\ \A j \in ConfigKeys \ {last'.key} :
            /\ config'[j] = config[j]
            /\ read_ini(ini')[j] = config[j]]_vars

\* C14: the load of the configuration at startup never fails: with a missing
\* or an unparsable file read_ini returns the empty configuration, in which
\* every key reads as its default, startup goes on, and the load itself
\* creates no file.
C14_LoadErrorIsNotFatal ==
  [][(pc = "init" /\ ini.kind \in {"missing", "corrupt"}) =>
       /\ pc' = "ready"
       /\ error' = "none"
       /\ config' = NoOptions
       /\ ini' = ini
       /\ Getter(config', "remote_path").value = "DCIM"
       /\ Getter(config', "icon_path").value = "icon.png"
       /\ Getter(config', "sync_interval").value = "float(1.0)"]_vars

\* C15: the configuration and its file change only in a handler step that
\* leaves the folder prompt for the sync, and Fmount.drives only in a step of
\* detect_new_drives; a step that changes the run flag or stops the tray icon
\* changes nothing of the poll, the handlers, the configuration or the trees.
C15_UiMutatesOnlyStopFlag ==
  [][/\ (config' # config \/ ini' # ini) =>
          \E v \in Volumes : hpc[v] = "prompt" /\ hpc'[v] = "sync"
     /\ drives' # drives => (pc = "iter" /\ pc' \in {"callback", "sleep"})
     /\ (run' # run \/ icon' # icon) =>
          UNCHANGED <<pollVars, handlerVars, storeVars>>]_vars

\* quit came while a handler was running, and that handler has stored the
\* chosen folder
C15_Witness ==
  /\ ~run /\ ~icon
  /\ pc = "callback"
  /\ writes > 0
  /\ \E v \in Volumes : hpc[v] = "sync"

\* C16: a detect_new_drives call that observed the same volumes as the call
\* before it has invoked no callback and leaves Fmount.drives as it found it.
C16_SecondCallIsIdempotent ==
  [][(pc = "iter" /\ pc' = "sleep" /\ Range(_drives) = prev) =>
       /\ called = <<>>
       /\ drives' = drives]_vars

\* C17: a handler that leaves the folder prompt with an existing directory
\* calls dirsync.sync, with the volume's remote_path directory as source and
\* the chosen folder as target; the call is made once per invocation, only
\* after such an answer, and not at all when the prompt is cancelled.
C17_SyncOncePerValidAnswer ==
  [][\A v \in Volumes :
       /\ (hpc[v] = "prompt" /\ hpc'[v] # "prompt" /\ answer' \in Folders) =>
            /\ hpc'[v] = "sync"
            /\ SyncArgs(v)' = [source |-> <<v, config'["remote_path"]>>,
                               target |-> answer']
       /\ (hpc[v] # "sync" /\ hpc'[v] = "sync") =>
            (hpc[v] = "prompt" /\ answer' \in Folders /\ ~synced)
       /\ (hpc[v] = "prompt" /\ hpc'[v] = "idle" /\ answer' = None) =>
            ~synced']_vars

\* C18: when the handler leaves the folder prompt with an existing directory
\* the sync step starts with local_folder equal to that directory, and
\* local_folder was written exactly when the directory differs from the value
\* configured before.
C18_LocalFolderFollowsChoice ==
  [][\A v \in Volumes :
       (hpc[v] = "prompt" /\ hpc'[v] # "prompt" /\ answer' \in Folders) =>
         /\ hpc'[v] = "sync"
         /\ local_folder(config').value = answer'
         /\ writes' - writes - (IF config["remote_path"] = None THEN 1 ELSE 0)
              = (IF answer' # config["local_folder"] THEN 1 ELSE 0)]_vars

\* C19: the volume of every handler invocation in flight is in Fmount.drives;
\* an entry leaves the list only in the removal loop, when every callback of
\* the poll has returned; and the volume of a handler that returns, by a
\* cancel or otherwise, or that raises, is still in the list.
C19_InFlightVolumeIsTracked ==
  /\ [](\A v \in InFlight : In(v, drives))
  /\ [][/\ (\E v \in Volumes : In(v, drives) /\ ~In(v, drives')) =>
            (InFlight = {} /\ pc = "iter" /\ pc' = "sleep")
        /\ \A v \in Volumes :
             (hpc[v] # "idle" /\ hpc'[v] = "idle") => In(v, drives')]_vars

\* a handler has raised and its volume is tracked
C19_Witness ==
  /\ pc = "raised"
  /\ error = "handler"
  /\ called # <<>>
  /\ In(called[Len(called)], drives)

\* C20: no volume is in Fmount.drives more than once.
C20_NoDuplicateDrives ==
  \A v \in Volumes : Count(v, drives) <= 1

\* a poll has added a volume to a list that already held one
C20_Witness ==
  /\ pc = "sleep"
  /\ called # <<>>
  /\ Len(drives) >= 2
  /\ prev # {}

====
